---------------------------- MODULE Spec2Model ----------------------------
(***************************************************************************)
(* A model of mpeg2psi: the bit-field accessors (section.py,               *)
(* section_parser.py), the mutators (section_builder.py) and the           *)
(* incremental Section assembler (section.py, Section.parse and            *)
(* Section.add_data).                                                      *)
(*                                                                         *)
(* Conventions.                                                            *)
(*  - A Python list of bytes is a sequence; Python index i is index i+1.   *)
(*  - An object attribute is a sequence of length 0 or 1: <<>> when the    *)
(*    attribute has never been assigned (or holds None, or was deleted     *)
(*    with del), <<v>> when it holds v.  data_cache distinguishes its      *)
(*    three conditions: <<>> deleted, << <<>> >> None, << list >> a list.  *)
(*  - A call that raises is a result with exc # NoExc; the object keeps    *)
(*    every assignment made before the raise.                              *)
(***************************************************************************)
EXTENDS Integers, Sequences, FiniteSets, TLC

VARIABLES
    section,    \* the Section object: a record of its attributes
    stream,     \* the bytes the caller holds: one section, then the next bytes
    written,    \* the field values the caller wrote into the section
    pos,        \* how many bytes of stream the caller has passed to add_data
    ret,        \* the outcome of the last add_data call
    errors,     \* the exceptions add_data has raised so far
    split,      \* the shape of the chunk sizes so far
    data,       \* section_builder: the block of bytes being built
    vals,       \* section_builder: the last value passed to each mutator
    block,      \* section_builder: the block as it was before any mutator
    once,       \* section_builder: no mutator has been applied twice
    pat_data,   \* pat: the list of bytes given to get_program_map
    table,      \* pat: the outcome of the get_program_map call
    pat,        \* pat: the outcome of the construction of a Pat
    other,      \* a second Section object, fed from a stream of its own
    other_pos,  \* how many bytes of its stream the second object was passed
    fed         \* the chunk sizes each of the two objects was passed, in order

vars == <<section, stream, written, pos, ret, errors, split, data, vals,
          block, once, pat_data, table, pat, other, other_pos, fed>>

PatVars == <<pat_data, table, pat>>

TwoVars == <<other, other_pos, fed>>

-----------------------------------------------------------------------------
(* Bounds of the model. *)

MaxSectionLength == 10
MaxExtra == 2
MaxPayload == 1

-----------------------------------------------------------------------------
(* Python's integer and list operations. *)

Min(a, b) == IF a < b THEN a ELSE b

Max(a, b) == IF a > b THEN a ELSE b

RECURSIVE BitAnd(_, _)
BitAnd(a, b) ==
    IF a = 0 \/ b = 0 THEN 0
    ELSE (a % 2) * (b % 2) + 2 * BitAnd(a \div 2, b \div 2)

RECURSIVE BitOr(_, _)
BitOr(a, b) ==
    IF a = 0 THEN b
    ELSE IF b = 0 THEN a
    ELSE Max(a % 2, b % 2) + 2 * BitOr(a \div 2, b \div 2)

Shl(a, n) == a * (2 ^ n)

Shr(a, n) == a \div (2 ^ n)

\* data[i]
At(d, i) == d[i + 1]

\* data[i] = v
SetAt(d, i, v) == [d EXCEPT ![i + 1] = v]

\* data[a:b] for a >= 0; a negative b counts from the end
PySlice(d, a, b) ==
    LET hi == IF b < 0 THEN Max(Len(d) + b, 0) ELSE Min(b, Len(d))
    IN  IF a >= hi THEN <<>> ELSE SubSeq(d, a + 1, hi)

\* data[a:]
PyFrom(d, a) == PySlice(d, a, Len(d))

\* data[-4:]
PyLast4(d) == PyFrom(d, Max(Len(d) - 4, 0))

-----------------------------------------------------------------------------
(* section.py: the accessors used by the Section class. *)

get_table_id(d) == At(d, 0)

get_section_syntax_indicator(d) == BitAnd(At(d, 1), 128) # 0

get_private_indicator(d) == BitAnd(At(d, 1), 64) # 0

\* Faulty variant: a length above the protocol maximum is cut down to it
get_section_length_max_4093(d) ==
    Min(Shl(BitAnd(At(d, 1), 15), 8) + At(d, 2), 4093)

get_section_length(d) == Shl(BitAnd(At(d, 1), 15), 8) + At(d, 2)

get_table_id_extension(d) == Shl(At(d, 3), 8) + At(d, 4)

get_version_number(d) == Shr(BitAnd(At(d, 5), 62), 1)

get_current_next_indicator(d) == BitAnd(At(d, 5), 1) # 0

get_section_number(d) == At(d, 6)

get_last_section_number(d) == At(d, 7)

\* Faulty variant: the payload runs to the end of the buffer
get_data_to_end(d) ==
    PyFrom(d, IF get_section_syntax_indicator(d) THEN 3 + 5 ELSE 3)

get_data(d) ==
    LET sl == get_section_length(d)
        ext == get_section_syntax_indicator(d)
        offset == IF ext THEN 3 + 5 ELSE 3
        data_len == IF ext THEN sl - 5 ELSE sl
    IN  \* data[offset:offset+data_len]; data_len < 0 gives an empty slice
        \* unless offset+data_len is itself negative (never: offset >= 8 > 5)
        PySlice(d, offset, offset + data_len)

-----------------------------------------------------------------------------
(* section_parser.py: the same accessors, as the builder's tests import them. *)

sparser_get_table_id(d) == At(d, 0)

sparser_get_section_syntax_indicator(d) == BitAnd(At(d, 1), 128) # 0

sparser_get_private_indicator(d) == BitAnd(At(d, 1), 64) # 0

\* Faulty variant: the top nibble of byte 1 is read into the length
sparser_get_section_length_whole_byte(d) == Shl(At(d, 1), 8) + At(d, 2)

sparser_get_section_length(d) == Shl(BitAnd(At(d, 1), 15), 8) + At(d, 2)

sparser_get_table_id_extension(d) == Shl(At(d, 3), 8) + At(d, 4)

sparser_get_version_number(d) == Shr(BitAnd(At(d, 5), 62), 1)

sparser_get_current_next_indicator(d) == BitAnd(At(d, 5), 1) # 0

sparser_get_section_number(d) == At(d, 6)

sparser_get_last_section_number(d) == At(d, 7)

sparser_get_data(d) ==
    PySlice(d,
        IF sparser_get_section_syntax_indicator(d) THEN 3 + 5 ELSE 3,
        IF sparser_get_section_syntax_indicator(d)
        THEN (3 + 5) + (sparser_get_section_length(d) - 5)
        ELSE 3 + sparser_get_section_length(d))

-----------------------------------------------------------------------------
(* section.py: class Section. *)

NoExc == "none"

\* the outcome of a method call: the object after it, the value returned
\* (<<>> for None) and the exception raised (NoExc for a normal return)
Outcome(self, val, exc) == [self |-> self, val |-> val, exc |-> exc]

\* Section.__init__ with data=None.  Only table_id, complete, header,
\* extended_header and data_cache are assigned; the other attributes do not
\* exist until the header has been decoded.
Section_init ==
    [ table_id                 |-> <<>>,
      complete                 |-> FALSE,
      header                   |-> FALSE,
      extended_header          |-> FALSE,
      data_cache               |-> << <<>> >>,
      section_syntax_indicator |-> <<>>,
      private_indicator        |-> <<>>,
      section_length           |-> <<>>,
      length                   |-> <<>>,
      table_id_extension       |-> <<>>,
      version                  |-> <<>>,
      current_next_indicator   |-> <<>>,
      section_number           |-> <<>>,
      last_section_number      |-> <<>>,
      table_body               |-> <<>>,
      crc                      |-> <<>> ]

\* Faulty variant: the header is decoded again on every parse
get_header_again(self, d) ==
    [self EXCEPT
        !.table_id                 = <<get_table_id(d)>>,
        !.section_syntax_indicator = <<get_section_syntax_indicator(d)>>,
        !.private_indicator        = <<get_private_indicator(d)>>,
        !.section_length           = <<get_section_length(d)>>,
        !.length                   = <<get_section_length(d) + 3>>,
        !.header                   = TRUE]

\* Section._get_header
get_header(self, d) ==
    IF self.header THEN self
    ELSE [self EXCEPT
            !.table_id                 = <<get_table_id(d)>>,
            !.section_syntax_indicator = <<get_section_syntax_indicator(d)>>,
            !.private_indicator        = <<get_private_indicator(d)>>,
            !.section_length           = <<get_section_length(d)>>,
            !.length                   = <<get_section_length(d) + 3>>,
            !.header                   = TRUE]

\* Section._get_extended_header
get_extended_header(self, d) ==
    IF self.extended_header THEN self
    ELSE [self EXCEPT
            !.table_id_extension     = <<get_table_id_extension(d)>>,
            !.version                = <<get_version_number(d)>>,
            !.current_next_indicator = <<get_current_next_indicator(d)>>,
            !.section_number         = <<get_section_number(d)>>,
            !.last_section_number    = <<get_last_section_number(d)>>,
            !.extended_header        = TRUE]

\* Section._parse_header, for d a list (its return value is never used)
parse_header(self, d) ==
    IF Len(d) < 3 THEN self
    ELSE LET h == get_header(self, d)
         IN  IF h.section_syntax_indicator[1]
             THEN IF Len(d) - 3 < 5 THEN h ELSE get_extended_header(h, d)
             ELSE h

\* A Python integer too wide for the checker's 32-bit integers, as the pair
\* <<hi, lo>> of value hi * 65536 + lo with 0 <= lo < 65536.
Wide(n) == <<n \div 65536, n % 65536>>

\* w << 8
WideShl8(w) == <<w[1] * 256 + w[2] \div 256, (w[2] % 256) * 256>>

\* w + b
WideAdd(w, b) == <<w[1] + (w[2] + b) \div 65536, (w[2] + b) % 65536>>

\* Section._get_crc from line 275 on, for crc_data = data[-4:]: crc is built
\* byte by byte, and indexing a byte that crc_data does not have raises
\* IndexError after the assignments made so far.  crc is a Wide integer.
get_crc_bytes(self, crc_data) ==
    IF Len(crc_data) = 0 THEN Outcome(self, <<>>, "IndexError")
    ELSE IF Len(crc_data) = 1
    THEN Outcome([self EXCEPT !.crc =
            <<WideShl8(Wide(crc_data[1]))>>], <<>>, "IndexError")
    ELSE IF Len(crc_data) = 2
    THEN Outcome([self EXCEPT !.crc =
            <<WideShl8(WideAdd(WideShl8(Wide(crc_data[1])), crc_data[2]))>>],
            <<>>, "IndexError")
    ELSE IF Len(crc_data) = 3
    THEN Outcome([self EXCEPT !.crc =
            <<WideShl8(WideAdd(WideShl8(WideAdd(WideShl8(Wide(crc_data[1])),
                crc_data[2])), crc_data[3]))>>],
            <<>>, "IndexError")
    ELSE Outcome([self EXCEPT !.crc =
            <<WideAdd(WideShl8(WideAdd(WideShl8(WideAdd(WideShl8(Wide(crc_data[1])),
                crc_data[2])), crc_data[3])), crc_data[4])>>],
            <<>>, NoExc)

\* Section._get_crc
get_crc(self, d) ==
    IF ~self.complete THEN Outcome(self, <<>>, NoExc)
    ELSE IF ~self.extended_header THEN Outcome(self, <<>>, NoExc)
    ELSE get_crc_bytes(self, PyLast4(d))

\* Section.parse, line 225: del (self.data_cache), unless _get_crc raised
parse_del_cache(c) ==
    IF c.exc # NoExc THEN c
    ELSE IF c.self.data_cache = <<>> THEN Outcome(c.self, <<>>, "AttributeError")
    ELSE Outcome([c.self EXCEPT !.data_cache = <<>>], <<>>, NoExc)

\* Section.parse, lines 221-223, for b the object with table_body assigned
parse_crc(b) == parse_del_cache(get_crc(b, b.table_body[1]))

\* Faulty variant: completion needs one byte more than the section has
parse_complete_late(h, d) ==
    IF ~h.header THEN Outcome(h, <<>>, NoExc)
    ELSE IF Len(d) > h.section_length[1] + 3
    THEN parse_crc([h EXCEPT
                      !.table_body = <<PySlice(d, 3, 3 + h.section_length[1])>>,
                      !.complete   = TRUE])
    ELSE Outcome(h, <<>>, NoExc)

\* Section.parse, lines 218-225, for h the object after _parse_header
parse_complete(h, d) ==
    IF ~h.header THEN Outcome(h, <<>>, NoExc)
    ELSE IF Len(d) >= h.section_length[1] + 3
    THEN parse_crc([h EXCEPT
                      !.table_body = <<PySlice(d, 3, 3 + h.section_length[1])>>,
                      !.complete   = TRUE])
    ELSE Outcome(h, <<>>, NoExc)

\* Section.parse, lines 217-225, once data is bound to a list d
parse_body(self, d) == parse_complete(parse_header(self, d), d)

\* Faulty variant: a parse of new data starts the stages over
parse_restart(self, arg) ==
    IF arg # <<>> /\ arg[1] # <<>>
    THEN parse_body([self EXCEPT !.data_cache = <<arg[1]>>, !.header = FALSE,
                                 !.extended_header = FALSE, !.complete = FALSE],
                    arg[1])
    ELSE IF self.data_cache = <<>> THEN Outcome(self, <<>>, "AttributeError")
    ELSE IF self.data_cache[1] = <<>> THEN Outcome(self, <<>>, "TypeError")
    ELSE parse_body(self, self.data_cache[1])

\* Section.parse(data): arg is <<>> for data=None and <<list>> for a list.
\* A None or empty data is falsy: the cached data is parsed instead, and
\* len(None) raises TypeError when the cache is still None.  (The cache is
\* never an empty list: it is assigned from a non-empty list and only grows.)
parse(self, arg) ==
    IF arg # <<>> /\ arg[1] # <<>>
    THEN parse_body([self EXCEPT !.data_cache = <<arg[1]>>], arg[1])
    ELSE IF self.data_cache = <<>> THEN Outcome(self, <<>>, "AttributeError")
    ELSE IF self.data_cache[1] = <<>> THEN Outcome(self, <<>>, "TypeError")
    ELSE parse_body(self, self.data_cache[1])

\* Section.add_data, line 262, for p the outcome of the parse of line 260
add_data_return(p, val) ==
    IF p.exc # NoExc THEN p ELSE Outcome(p.self, <<val>>, NoExc)

\* Section.add_data, lines 259-260, for s2 the object with the cache extended
add_data_parse(s2) ==
    IF Len(s2.data_cache[1]) = s2.section_length[1] + 3
    THEN parse(s2, <<>>)
    ELSE Outcome(s2, <<>>, NoExc)

\* Faulty variant: the new bytes are put in front of the cached ones
add_data_extend_in_front(s1, rest, datalen, extra_len, missing_data_len) ==
    add_data_return(
        add_data_parse([s1 EXCEPT !.data_cache =
            <<PySlice(rest, 0, missing_data_len) \o s1.data_cache[1]>>]),
        Min(datalen, missing_data_len + extra_len))

\* Section.add_data, lines 257-262
add_data_extend(s1, rest, datalen, extra_len, missing_data_len) ==
    add_data_return(
        add_data_parse([s1 EXCEPT !.data_cache =
            <<s1.data_cache[1] \o PySlice(rest, 0, missing_data_len)>>]),
        Min(datalen, missing_data_len + extra_len))

\* Section.add_data, lines 256-262: reading section_length of an object whose
\* header is not decoded, or data_cache after its del, raises AttributeError
add_data_rest(s1, rest, datalen, extra_len) ==
    IF s1.section_length = <<>> \/ s1.data_cache = <<>>
    THEN Outcome(s1, <<>>, "AttributeError")
    ELSE add_data_extend(s1, rest, datalen, extra_len,
            (s1.section_length[1] + 3) - Len(s1.data_cache[1]))

\* Section.add_data, lines 251-262, for hp the outcome of the parse of line 253
add_data_header(hp, chunk, missing_header_len) ==
    IF hp.exc # NoExc THEN hp
    ELSE add_data_rest(hp.self, PyFrom(chunk, missing_header_len),
                       Len(chunk), missing_header_len)

\* Section.add_data, lines 243-262: the cache holds a list.  Lines 247-253 are
\* the "strange case" where the header is not complete yet.
add_data_more(self, chunk) ==
    IF self.header THEN add_data_rest(self, chunk, Len(chunk), 0)
    ELSE add_data_header(
            parse([self EXCEPT !.data_cache =
                     <<self.data_cache[1]
                         \o PySlice(chunk, 0, 3 - Len(self.data_cache[1]))>>],
                  <<>>),
            chunk, 3 - Len(self.data_cache[1]))

\* Section.add_data, lines 240-241, for p the outcome of self.parse(data)
add_data_first(p) ==
    IF p.exc # NoExc THEN p
    ELSE IF p.self.length = <<>> THEN Outcome(p.self, <<>>, "AttributeError")
    ELSE Outcome(p.self, p.self.length, NoExc)

\* Section.add_data, lines 239-262: the section is not complete
add_data_incomplete(self, chunk) ==
    IF self.data_cache = <<>> THEN Outcome(self, <<>>, "AttributeError")
    ELSE IF self.data_cache[1] = <<>> THEN add_data_first(parse(self, <<chunk>>))
    ELSE add_data_more(self, chunk)

\* Faulty variant: a complete Section takes further data as the start of a new section
add_data_restart(self, chunk) ==
    add_data_incomplete(IF self.complete THEN Section_init ELSE self, chunk)

\* Section.add_data
add_data(self, chunk) ==
    IF self.complete THEN Outcome(self, <<>>, NoExc)
    ELSE add_data_incomplete(self, chunk)

-----------------------------------------------------------------------------
(* section_builder.py: the mutators.  Each returns the block after the call. *)

create_section_data_block(data_length) == [i \in 1..data_length |-> 0]

set_table_id(d, table_id) == SetAt(d, 0, table_id)

\* Faulty variant: the indicator is written over the whole of byte 1
set_section_syntax_indicator_whole_byte(d, indicator) ==
    SetAt(d, 1, IF indicator THEN 128 ELSE 0)

set_section_syntax_indicator(d, indicator) ==
    LET c == SetAt(d, 1, BitAnd(At(d, 1), 127))
    IN  IF indicator THEN SetAt(c, 1, BitOr(At(c, 1), 128)) ELSE c

set_private_indicator(d, indicator) ==
    LET c == SetAt(d, 1, BitAnd(At(d, 1), 191))
    IN  IF indicator THEN SetAt(c, 1, BitOr(At(c, 1), 64)) ELSE c

\* Faulty variant: the high part of the length is not masked to four bits
set_section_length_unmasked(d, section_length) ==
    LET c     == SetAt(SetAt(d, 1, BitAnd(At(d, 1), 240)), 2, 0)
        part1 == Shr(section_length, 8)
        part2 == BitAnd(section_length, 255)
    IN  SetAt(SetAt(c, 1, BitOr(At(c, 1), part1)), 2, part2)

set_section_length(d, section_length) ==
    LET c     == SetAt(SetAt(d, 1, BitAnd(At(d, 1), 240)), 2, 0)
        part1 == Shr(BitAnd(section_length, 3840), 8)
        part2 == BitAnd(section_length, 255)
    IN  SetAt(SetAt(c, 1, BitOr(At(c, 1), part1)), 2, part2)

set_table_id_extension(d, table_id_extension) ==
    SetAt(SetAt(d, 3, Shr(BitAnd(table_id_extension, 65280), 8)),
          4, BitAnd(table_id_extension, 255))

\* Faulty variant: the version is not shifted to bits 5..1
set_version_number_unshifted(d, version) ==
    LET c == SetAt(d, 5, BitAnd(At(d, 5), 193))
    IN  SetAt(c, 5, BitOr(At(c, 5), BitAnd(version, 62)))

set_version_number(d, version) ==
    LET c == SetAt(d, 5, BitAnd(At(d, 5), 193))
    IN  SetAt(c, 5, BitOr(At(c, 5), BitAnd(Shl(version, 1), 62)))

set_current_next_indicator(d, indicator) ==
    LET c == SetAt(d, 5, BitAnd(At(d, 5), 254))
    IN  IF indicator THEN SetAt(c, 5, BitOr(At(c, 5), 1)) ELSE c

set_section_number(d, section_number) ==
    SetAt(d, 6, BitAnd(section_number, 255))

set_last_section_number(d, last_section_number) ==
    SetAt(d, 7, BitAnd(last_section_number, 255))

\* for i in range(offset, len(data)): data[i] = payload[i - offset]
\* (payload holds at least len(data) - offset bytes)
set_data(d, payload, offset) ==
    [i \in 1..Len(d) |-> IF i - 1 >= offset THEN payload[i - offset] ELSE d[i]]

-----------------------------------------------------------------------------
(* The inputs: the sections a caller builds and feeds. *)

\* payload bytes, all different from one another and from the header bytes
Pattern(seed, n) == [i \in 1..n |-> (seed + 37 * i) % 256]

\* the bytes that follow the section in the stream (the next section's)
Trailer(n) == [i \in 1..n |-> 200 + i]

TableIds == {0, 66}

NoExt ==
    [ table_id_extension |-> 0, version |-> 0, current_next_indicator |-> FALSE,
      section_number |-> 0, last_section_number |-> 0 ]

ExtHeaders ==
    { [ table_id_extension |-> 20, version |-> 10, current_next_indicator |-> TRUE,
        section_number |-> 25, last_section_number |-> 35 ],
      [ table_id_extension |-> 4660, version |-> 31, current_next_indicator |-> FALSE,
        section_number |-> 1, last_section_number |-> 254 ] }

\* reserved bits 5..4 of byte 1: clear as the builder leaves them, or set
ReservedBits == {0, 48}

\* whether the extended header and the payload fit behind the header
HasExtension(ssi, sl) == ssi /\ sl >= 5

\* the section on the wire: a zeroed block of section_length+3 bytes filled in
\* by the section_builder mutators.  An extended section too short for its
\* extended header carries its bytes as plain payload.
Wire(w, reserved) ==
    LET b0 == create_section_data_block(w.section_length + 3)
        b1 == set_section_length(
                set_private_indicator(
                  set_section_syntax_indicator(
                    set_table_id(b0, w.table_id),
                    w.section_syntax_indicator),
                  w.private_indicator),
                w.section_length)
        b2 == IF HasExtension(w.section_syntax_indicator, w.section_length)
              THEN set_data(
                     set_last_section_number(
                       set_section_number(
                         set_current_next_indicator(
                           set_version_number(
                             set_table_id_extension(b1, w.table_id_extension),
                             w.version),
                           w.current_next_indicator),
                         w.section_number),
                       w.last_section_number),
                     w.payload, 8)
              ELSE set_data(b1, w.payload, 3)
    IN  SetAt(b2, 1, BitOr(At(b2, 1), reserved))

NoVals ==
    [ table_id |-> <<>>, section_syntax_indicator |-> <<>>,
      private_indicator |-> <<>>, section_length |-> <<>>,
      table_id_extension |-> <<>>, version |-> <<>>,
      current_next_indicator |-> <<>>, section_number |-> <<>>,
      last_section_number |-> <<>>, payload |-> <<>> ]

NoWritten ==
    [ table_id |-> 0, section_syntax_indicator |-> FALSE,
      private_indicator |-> FALSE, section_length |-> 0,
      table_id_extension |-> 0, version |-> 0,
      current_next_indicator |-> FALSE, section_number |-> 0,
      last_section_number |-> 0, payload |-> <<>>, reserved |-> 0 ]

NoRet == [val |-> <<>>, exc |-> NoExc]

\* get_program_map has not been called
NotCalled == [val |-> <<>>, exc |-> "not called"]

\* no Pat has been constructed
NoPat == [made |-> "no", self |-> <<>>, exc |-> NoExc]

\* neither of the two objects has been passed a chunk
NoFed == [a |-> <<>>, b |-> <<>>]

-----------------------------------------------------------------------------
(* The assembler: a caller feeds the stream to a fresh Section in chunks. *)

Init ==
    \E table_id \in TableIds, ssi \in BOOLEAN, pi \in BOOLEAN,
       sl \in 0..MaxSectionLength, reserved \in ReservedBits,
       extra \in 0..MaxExtra :
      \E ext \in IF HasExtension(ssi, sl) THEN ExtHeaders ELSE {NoExt} :
        LET w == [ table_id                 |-> table_id,
                   section_syntax_indicator |-> ssi,
                   private_indicator        |-> pi,
                   section_length           |-> sl,
                   table_id_extension       |-> ext.table_id_extension,
                   version                  |-> ext.version,
                   current_next_indicator   |-> ext.current_next_indicator,
                   section_number           |-> ext.section_number,
                   last_section_number      |-> ext.last_section_number,
                   payload  |-> Pattern(table_id + 1,
                                  IF HasExtension(ssi, sl) THEN sl - 5 ELSE sl),
                   reserved |-> reserved ]
        IN  /\ written = w
            /\ stream = Wire(w, reserved) \o Trailer(extra)
            /\ section = Section_init
            /\ pos = 0
            /\ ret = NoRet
            /\ errors = {}
            /\ split = "start"
            /\ data = <<>>
            /\ vals = NoVals
            /\ block = <<>>
            /\ once = TRUE
            /\ pat_data = <<>>
            /\ table = NotCalled
            /\ pat = NoPat
            /\ other = Section_init
            /\ other_pos = 0
            /\ fed = NoFed

\* the shape of the chunk sizes fed so far: 3 header bytes, then 5
\* extended-header bytes, then one byte at a time; or anything else
NextSplit(s, n) ==
    IF s = "start" /\ n = 3 THEN "3"
    ELSE IF s = "3" /\ n = 5 THEN "3+5"
    ELSE IF s \in {"3+5", "3+5+1s"} /\ n = 1 THEN "3+5+1s"
    ELSE "other"

\* the caller's bookkeeping after a call with n bytes whose outcome is r
Called(r, n) ==
    /\ section' = r.self
    /\ ret' = [val |-> r.val, exc |-> r.exc]
    /\ pos' = pos + n
    /\ errors' = errors \cup ({r.exc} \ {NoExc})
    /\ split' = IF section.complete THEN split ELSE NextSplit(split, n)
    /\ UNCHANGED <<stream, written, data, vals, block, once, PatVars, TwoVars>>

\* section.add_data(stream[pos:pos+n]); the caller passes consecutive chunks
\* in stream order, and goes on after an exception it has caught
AddData(n) == Called(add_data(section, PySlice(stream, pos, pos + n)), n)

Next == \E n \in 0..(Len(stream) - pos) : AddData(n)

Spec == Init /\ [][Next]_vars

-----------------------------------------------------------------------------
(* The builder: a caller applies the section_builder mutators to a block, in
   any order and any number of times. *)

\* the block is fresh from create_section_data_block, or a buffer in use
\* whose bits are all set
Fills == {0, 255}

TableIdValues == {1}

\* the length the block asks for, one that uses the high nibble, and one
\* shorter than the block
SectionLengthValues(d) == {Len(d) - 3, 2565, 6}

TableIdExtensionValues == {4660}

VersionValues == {10, 31}

SectionNumberValues == {25}

LastSectionNumberValues == {35}

\* the payload written at offset 8 fills the block to its end
PayloadValues(d) == {Pattern(1, Len(d) - 8)}

InitBuilder ==
    /\ \E n \in 8..(8 + MaxPayload), fill \in Fills :
         data = IF fill = 0 THEN create_section_data_block(n)
                ELSE [i \in 1..n |-> fill]
    /\ block = data
    /\ once = TRUE
    /\ pat_data = <<>>
    /\ table = NotCalled
    /\ pat = NoPat
    /\ other = Section_init
    /\ other_pos = 0
    /\ fed = NoFed
    /\ vals = NoVals
    /\ section = Section_init
    /\ stream = <<>>
    /\ written = NoWritten
    /\ pos = 0
    /\ ret = NoRet
    /\ errors = {}
    /\ split = "start"

Assembler == <<section, stream, written, pos, ret, errors, split>>

SetTableId ==
    \E v \in TableIdValues :
        /\ data' = set_table_id(data, v)
        /\ vals' = [vals EXCEPT !.table_id = <<v>>]
        /\ once' = (once /\ vals.table_id = <<>>)
        /\ UNCHANGED <<Assembler, block, PatVars, TwoVars>>

SetSectionSyntaxIndicator ==
    \E v \in BOOLEAN :
        /\ data' = set_section_syntax_indicator(data, v)
        /\ vals' = [vals EXCEPT !.section_syntax_indicator = <<v>>]
        /\ once' = (once /\ vals.section_syntax_indicator = <<>>)
        /\ UNCHANGED <<Assembler, block, PatVars, TwoVars>>

SetPrivateIndicator ==
    \E v \in BOOLEAN :
        /\ data' = set_private_indicator(data, v)
        /\ vals' = [vals EXCEPT !.private_indicator = <<v>>]
        /\ once' = (once /\ vals.private_indicator = <<>>)
        /\ UNCHANGED <<Assembler, block, PatVars, TwoVars>>

SetSectionLength ==
    \E v \in SectionLengthValues(data) :
        /\ data' = set_section_length(data, v)
        /\ vals' = [vals EXCEPT !.section_length = <<v>>]
        /\ once' = (once /\ vals.section_length = <<>>)
        /\ UNCHANGED <<Assembler, block, PatVars, TwoVars>>

SetTableIdExtension ==
    \E v \in TableIdExtensionValues :
        /\ data' = set_table_id_extension(data, v)
        /\ vals' = [vals EXCEPT !.table_id_extension = <<v>>]
        /\ once' = (once /\ vals.table_id_extension = <<>>)
        /\ UNCHANGED <<Assembler, block, PatVars, TwoVars>>

SetVersionNumber ==
    \E v \in VersionValues :
        /\ data' = set_version_number(data, v)
        /\ vals' = [vals EXCEPT !.version = <<v>>]
        /\ once' = (once /\ vals.version = <<>>)
        /\ UNCHANGED <<Assembler, block, PatVars, TwoVars>>

SetCurrentNextIndicator ==
    \E v \in BOOLEAN :
        /\ data' = set_current_next_indicator(data, v)
        /\ vals' = [vals EXCEPT !.current_next_indicator = <<v>>]
        /\ once' = (once /\ vals.current_next_indicator = <<>>)
        /\ UNCHANGED <<Assembler, block, PatVars, TwoVars>>

SetSectionNumber ==
    \E v \in SectionNumberValues :
        /\ data' = set_section_number(data, v)
        /\ vals' = [vals EXCEPT !.section_number = <<v>>]
        /\ once' = (once /\ vals.section_number = <<>>)
        /\ UNCHANGED <<Assembler, block, PatVars, TwoVars>>

SetLastSectionNumber ==
    \E v \in LastSectionNumberValues :
        /\ data' = set_last_section_number(data, v)
        /\ vals' = [vals EXCEPT !.last_section_number = <<v>>]
        /\ once' = (once /\ vals.last_section_number = <<>>)
        /\ UNCHANGED <<Assembler, block, PatVars, TwoVars>>

SetData ==
    \E v \in PayloadValues(data) :
        /\ data' = set_data(data, v, 8)
        /\ vals' = [vals EXCEPT !.payload = <<v>>]
        /\ once' = (once /\ vals.payload = <<>>)
        /\ UNCHANGED <<Assembler, block, PatVars, TwoVars>>

NextBuilder ==
    \/ SetTableId
    \/ SetSectionSyntaxIndicator
    \/ SetPrivateIndicator
    \/ SetSectionLength
    \/ SetTableIdExtension
    \/ SetVersionNumber
    \/ SetCurrentNextIndicator
    \/ SetSectionNumber
    \/ SetLastSectionNumber
    \/ SetData

SpecBuilder == InitBuilder /\ [][NextBuilder]_vars

-----------------------------------------------------------------------------
(* Properties of the assembler (specification Spec). *)

\* the size on the wire of the section the stream starts with
WireLen == get_section_length(stream) + 3

\* the Section a single add_data call with the whole section gives
Whole == add_data(Section_init, PySlice(stream, 0, WireLen)).self

\* the decoded fields of a Section
Decoded(s) ==
    << s.complete, s.table_id, s.section_syntax_indicator, s.private_indicator,
       s.section_length, s.length, s.table_id_extension, s.version,
       s.current_next_indicator, s.section_number, s.last_section_number,
       s.table_body, s.crc >>

\* C1 (chunk-invariance): once the chunks fed add up to exactly the bytes of
\* the section, no call has raised AttributeError, the Section is complete
\* and its decoded fields are those a single chunk gives.
C1_ChunkInvariance ==
    pos = WireLen =>
        /\ "AttributeError" \notin errors
        /\ section.complete
        /\ Decoded(section) = Decoded(Whole)

\* C2 (boundary completion): after every call, complete is True exactly when
\* the bytes supplied so far reach section_length+3; never earlier, and no
\* further byte or call is needed.
C2_BoundaryCompletion == section.complete <=> pos >= WireLen

\* C2: the section was fed as 3 header bytes, 5 extended-header bytes and
\* then one byte at a time, and the last one-byte call completed it.
C2_Witness ==
    /\ split = "3+5+1s"
    /\ pos = WireLen
    /\ ret = [val |-> <<1>>, exc |-> NoExc]
    /\ section.complete
    /\ section.extended_header

\* C3 (bytes consumed): a call on a Section that is not complete, if it
\* returns, returns a count between 0 and the length of the chunk.
C3_BytesConsumed ==
    [][ (~section.complete /\ ret'.exc = NoExc /\ ret'.val # <<>>)
            => (0 <= ret'.val[1] /\ ret'.val[1] <= pos' - pos) ]_vars

\* C4 (nothing of the next section): between calls data_cache never holds
\* more than section_length+3 bytes.
C4_NothingBeyondSection ==
    (section.header /\ section.data_cache # <<>> /\ section.data_cache # << <<>> >>)
        => Len(section.data_cache[1]) <= section.section_length[1] + 3

\* the stream starts with a section the builder's mutators can write: the
\* reserved bits clear, and room for the extended header when extended
Built ==
    /\ written.reserved = 0
    /\ written.section_syntax_indicator => written.section_length >= 5

\* C5 (round trip): once a section written with the mutators has been fed,
\* in any split, no call has raised AttributeError, the Section is complete
\* and its fields and payload are the values written.
C5_RoundTrip ==
    (Built /\ pos = WireLen) =>
        /\ "AttributeError" \notin errors
        /\ section.complete
        /\ section.table_id = <<written.table_id>>
        /\ section.section_syntax_indicator = <<written.section_syntax_indicator>>
        /\ section.private_indicator = <<written.private_indicator>>
        /\ section.section_length = <<written.section_length>>
        /\ written.section_syntax_indicator =>
             /\ section.table_id_extension = <<written.table_id_extension>>
             /\ section.version = <<written.version>>
             /\ section.current_next_indicator = <<written.current_next_indicator>>
             /\ section.section_number = <<written.section_number>>
             /\ section.last_section_number = <<written.last_section_number>>
             /\ PyFrom(section.table_body[1], 5) = written.payload
        /\ ~written.section_syntax_indicator =>
             section.table_body = <<written.payload>>

\* C8 (no-op once complete): a call on a complete Section leaves complete
\* True and every decoded field as it was.
C8_CompleteIsFrozen ==
    [][ section.complete => Decoded(section') = Decoded(section) ]_vars

\* C8: a complete Section on which add_data has been called again
C8_Witness ==
    /\ section.complete
    /\ ret = NoRet
    /\ pos > WireLen

\* C9 (returns 0 once complete): a call on a complete Section returns 0.
C9_ReturnsZero ==
    [][ section.complete => ret' = [val |-> <<0>>, exc |-> NoExc] ]_vars

\* C10 (insufficient data is not an error): while 1 or 2 bytes in total have
\* been supplied, no call has raised and header and complete are False.
C10_InsufficientData ==
    (0 < pos /\ pos < 3) =>
        /\ errors = {}
        /\ ~section.header
        /\ ~section.complete

-----------------------------------------------------------------------------
(* Properties of the builder (specification SpecBuilder). *)

AllSet == \A f \in DOMAIN vals : vals[f] # <<>>

\* what the section_parser accessors read for each header field
Read(d) ==
    [ table_id                 |-> <<sparser_get_table_id(d)>>,
      section_syntax_indicator |-> <<sparser_get_section_syntax_indicator(d)>>,
      private_indicator        |-> <<sparser_get_private_indicator(d)>>,
      section_length           |-> <<sparser_get_section_length(d)>>,
      table_id_extension       |-> <<sparser_get_table_id_extension(d)>>,
      version                  |-> <<sparser_get_version_number(d)>>,
      current_next_indicator   |-> <<sparser_get_current_next_indicator(d)>>,
      section_number           |-> <<sparser_get_section_number(d)>>,
      last_section_number      |-> <<sparser_get_last_section_number(d)>> ]

\* every mutator has been applied exactly once, in some order, to a block
\* that create_section_data_block returned
EachOnceFromZero ==
    /\ block = create_section_data_block(Len(block))
    /\ once
    /\ AllSet

\* C6 as stated: from a zeroed block, once every mutator has been applied
\* once, in any order, every accessor returns the value set and get_data
\* returns the payload set.
C6_SetGetAnyOrder ==
    EachOnceFromZero =>
        /\ \A f \in DOMAIN Read(data) : Read(data)[f] = vals[f]
        /\ sparser_get_data(data) = vals.payload[1]

\* C6 as amended: from a zeroed block, once every mutator has been applied
\* once, in any order, every header accessor returns the value set; get_data
\* returns the payload set provided section_syntax_indicator was set true and
\* section_length was set to at least len(data) - 3.
C6_SetGetAmended ==
    EachOnceFromZero =>
        /\ \A f \in DOMAIN Read(data) : Read(data)[f] = vals[f]
        /\ (vals.section_syntax_indicator = <<TRUE>>
                /\ vals.section_length[1] >= Len(data) - 3)
             => sparser_get_data(data) = vals.payload[1]

\* C6: every mutator applied, as in the tests: extended, section_length
\* len(data) - 3, a payload of at least one byte
C6_Witness ==
    /\ EachOnceFromZero
    /\ vals.section_syntax_indicator = <<TRUE>>
    /\ vals.private_indicator = <<FALSE>>
    /\ vals.section_length = <<Len(data) - 3>>
    /\ Len(data) > 8
    /\ sparser_get_data(data) = vals.payload[1]

\* the bits of the block by owner: one entry per mutator, and the reserved
\* bits of bytes 1 and 5 that no mutator owns
Bits(d) ==
    [ table_id                 |-> <<At(d, 0)>>,
      section_syntax_indicator |-> <<At(d, 1) \div 128>>,
      private_indicator        |-> <<(At(d, 1) \div 64) % 2>>,
      section_length           |-> <<At(d, 1) % 16, At(d, 2)>>,
      table_id_extension       |-> <<At(d, 3), At(d, 4)>>,
      version                  |-> <<(At(d, 5) \div 2) % 32>>,
      current_next_indicator   |-> <<At(d, 5) % 2>>,
      section_number           |-> <<At(d, 6)>>,
      last_section_number      |-> <<At(d, 7)>>,
      payload                  |-> PyFrom(d, 8),
      reserved                 |-> <<(At(d, 1) \div 16) % 4, At(d, 5) \div 64>> ]

\* C7 (write isolation): a mutator call leaves every bit outside its own
\* field unchanged: the fields of the other mutators, in particular those
\* sharing byte 1 or byte 5, and the reserved bits.
C7_WriteIsolation ==
    [][ LET before == Bits(data)
            after  == Bits(data')
        IN  /\ after.reserved = before.reserved
            /\ \A f \in DOMAIN vals :
                  vals'[f] = vals[f] => after[f] = before[f] ]_vars

\* C7: bytes 1 and 5 carry every field that shares them, each as it was set,
\* with the reserved bits of a block that had them set still set
C7_Witness ==
    /\ vals.section_syntax_indicator = <<TRUE>>
    /\ vals.private_indicator = <<TRUE>>
    /\ vals.section_length = <<2565>>
    /\ vals.version = <<10>>
    /\ vals.current_next_indicator = <<TRUE>>
    /\ At(data, 1) = 128 + 64 + 48 + 10
    /\ At(data, 5) = 192 + 20 + 1
    /\ sparser_get_private_indicator(data)

-----------------------------------------------------------------------------
(* Further properties of the assembler (specification Spec). *)

\* C11 (zero-length chunk): a call with an empty chunk raises no exception
\* and leaves every attribute of the Section, data_cache and complete
\* included, as it was.
C11_ZeroLengthChunk ==
    [][ pos' = pos => (ret'.exc = NoExc /\ section' = section) ]_vars

\* the bytes of the section in the stream
SectionBytes == PySlice(stream, 0, WireLen)

\* the last four bytes of the section read as a big-endian 32-bit number
\* (defined for a section of at least 4 bytes)
LastFourBigEndian ==
    << SectionBytes[WireLen - 3] * 256 + SectionBytes[WireLen - 2],
       SectionBytes[WireLen - 1] * 256 + SectionBytes[WireLen] >>

\* C12 (checksum): a complete Section has a crc exactly when its
\* section_syntax_indicator is true, and the crc is the big-endian value of
\* the last four bytes of the section, for every section_length.
C12_Checksum ==
    section.complete =>
        /\ section.crc # <<>> <=> section.section_syntax_indicator = <<TRUE>>
        /\ section.crc # <<>> => section.crc = <<LastFourBigEndian>>

\* the bytes at positions [a, b) of the stream, taken one by one
Positions(a, b) == [i \in 1..Max(b - a, 0) |-> stream[a + i]]

\* the payload of the section in the stream, from the values written
ExpectedPayload ==
    IF written.section_syntax_indicator
    THEN Positions(8, written.section_length + 3)
    ELSE Positions(3, written.section_length + 3)

\* C13 (payload slice): get_data returns the bytes at positions
\* [8, section_length+3) of an extended section and [3, section_length+3)
\* otherwise, whatever follows the section in the buffer; and the table_body
\* of a complete Section holds that payload (after its 5 extended-header
\* bytes when extended).
C13_PayloadSlice ==
    /\ get_data(stream) = ExpectedPayload
    /\ sparser_get_data(stream) = ExpectedPayload
    /\ section.complete =>
         (IF written.section_syntax_indicator
          THEN PyFrom(section.table_body[1], 5)
          ELSE section.table_body[1]) = ExpectedPayload

\* C13: a complete extended section with payload, in a buffer that goes on
\* after it
C13_Witness ==
    /\ section.complete
    /\ written.section_syntax_indicator
    /\ Len(stream) > WireLen
    /\ Len(get_data(stream)) >= 2
    /\ get_data(stream) = PySlice(stream, 8, WireLen)

\* C14 (table_body): the table_body of a complete Section is the bytes at
\* positions [3, 3+section_length) of the chunks supplied, in order, so it has
\* section_length bytes, however the bytes were chunked.
C14_TableBody ==
    section.complete =>
        /\ section.table_body = <<Positions(3, 3 + written.section_length)>>
        /\ Len(section.table_body[1]) = section.section_length[1]

\* C14: a section completed by a one-byte chunk after chunks of other sizes,
\* with chunk boundaries inside the table body
C14_Witness ==
    /\ section.complete
    /\ pos = WireLen
    /\ split = "other"
    /\ errors = {}
    /\ ret = [val |-> <<1>>, exc |-> NoExc]
    /\ Len(section.table_body[1]) >= 6

-----------------------------------------------------------------------------
(* The assembler with direct calls of Section.parse (specification          *)
(* SpecParse): besides add_data, the caller may call the public parse       *)
(* method, with no argument or with a list of bytes of its own.             *)

\* the sections of Init that SpecParse starts from
InitParse ==
    /\ Init
    /\ written.table_id = 0
    /\ written.reserved = 0
    /\ ~written.private_indicator
    /\ Len(stream) = WireLen + 1

\* the arguments of the direct calls: None, or the bytes of the stream from
\* its start, from its second byte or its last three bytes (lists that in
\* general do not start where the section starts)
ParseArgs ==
    {<<>>} \cup { <<PyFrom(stream, a)>> : a \in {0, 1, Len(stream) - 3} }

\* the caller's bookkeeping after a direct call of parse whose outcome is r
Parsed(r) ==
    /\ section' = r.self
    /\ ret' = [val |-> r.val, exc |-> r.exc]
    /\ errors' = errors \cup ({r.exc} \ {NoExc})
    /\ UNCHANGED <<pos, split, stream, written, data, vals, block, once,
                   PatVars, TwoVars>>

\* section.parse(arg)
Parse(arg) == Parsed(parse(section, arg))

FeedAny == \E n \in 0..(Len(stream) - pos) : AddData(n)

ParseAny == \E arg \in ParseArgs : Parse(arg)

NextParse ==
    \/ FeedAny
    \/ ParseAny

SpecParse == InitParse /\ [][NextParse]_vars

\* the attributes that Section._get_header assigns
HeaderFields(s) ==
    << s.table_id, s.section_syntax_indicator, s.private_indicator,
       s.section_length, s.length >>

\* the Section holds 3 bytes or more
HasThreeBytes(s) ==
    /\ s.data_cache # <<>>
    /\ s.data_cache # << <<>> >>
    /\ Len(s.data_cache[1]) >= 3

\* C15 (header decoded once): after any call that leaves the Section with 3
\* bytes or more the header is decoded and length is section_length + 3; and
\* no add_data or parse call on a Section whose header is decoded changes
\* table_id, section_syntax_indicator, private_indicator, section_length or
\* length.
C15_HeaderDecodedOnce ==
    [][ /\ HasThreeBytes(section') => section'.header
        /\ section'.header =>
              section'.length = <<section'.section_length[1] + 3>>
        /\ section.header => /\ section'.header
                             /\ HeaderFields(section') = HeaderFields(section)
      ]_vars

\* C15: a Section with its header decoded went through a parse call on bytes
\* whose first three encode another section_length, and kept its own
C15_Witness ==
    /\ pos >= 3
    /\ section.header
    /\ ~section.complete
    /\ HasThreeBytes(section)
    /\ get_section_length(section.data_cache[1]) # section.section_length[1]
    /\ section.length = <<section.section_length[1] + 3>>

-----------------------------------------------------------------------------
(* pat.py: get_program_map and class Pat.  A dictionary is a function from   *)
(* its keys to their values.  A Pat object is a Section record with the      *)
(* attributes transport_stream_id, payload and table added.                  *)

MaxEntries == 2

EmptyDict == [k \in {} |-> 0]

\* programs[k] = v
DictSet(programs, k, v) ==
    [x \in DOMAIN programs \cup {k} |-> IF x = k THEN v ELSE programs[x]]

\* (entry[0] << 8) + entry[1]
entry_prog(entry) == Shl(At(entry, 0), 8) + At(entry, 1)

\* Faulty variant: the pid takes all the bits of entry[2]
entry_pid_unmasked(entry) == Shl(At(entry, 2), 8) + At(entry, 3)

\* ((entry[2] & int('00011111',2)) << 8) + entry[3]
entry_pid(entry) == Shl(BitAnd(At(entry, 2), 31), 8) + At(entry, 3)

\* Faulty variant: program number 0 is stored like any other
add_entry_unfiltered(programs, entry) ==
    DictSet(programs, entry_prog(entry), entry_pid(entry))

\* get_program_map, lines 25-28: one entry goes into the dictionary
add_entry(programs, entry) ==
    IF entry_prog(entry) # 0
    THEN DictSet(programs, entry_prog(entry), entry_pid(entry))
    ELSE programs

\* get_program_map, lines 23-31: the loop.  Indexing an entry of fewer than 4
\* bytes raises IndexError.
RECURSIVE program_map_loop(_, _, _, _)
program_map_loop(d, programs, offset, table_entries) ==
    IF table_entries > 0
    THEN IF Len(PySlice(d, offset, offset + 4)) < 4
         THEN [val |-> <<>>, exc |-> "IndexError"]
         ELSE program_map_loop(d,
                  add_entry(programs, PySlice(d, offset, offset + 4)),
                  offset + 4, table_entries - 1)
    ELSE [val |-> <<programs>>, exc |-> NoExc]

\* Faulty variant: the last four bytes are read as entries too
get_program_map_with_crc(d) ==
    program_map_loop(d, EmptyDict, 0, Len(d) \div 4)

\* get_program_map(data) for a list; the division is Python 2's integer
\* division, which rounds down (also below zero)
get_program_map(d) ==
    program_map_loop(d, EmptyDict, 0, (Len(d) - 4) \div 4)

\* Section(data): arg is <<>> for data=None and <<list>> for a list
Section_new(arg) ==
    IF arg # <<>> /\ arg[1] # <<>>
    THEN parse(Section_init, arg)
    ELSE Outcome(Section_init, <<>>, NoExc)

\* a Pat when Section.__init__ has made its five assignments
Pat_fresh ==
    Section_init @@
    [transport_stream_id |-> <<>>, payload |-> <<>>, table |-> <<>>]

\* Pat.parse, lines 65-66, for m the outcome of get_program_map
Pat_parse_store(s, m) ==
    IF m.exc # NoExc THEN Outcome(s, <<>>, m.exc)
    ELSE Outcome([s EXCEPT !.table = m.val, !.payload = <<>>], <<>>, NoExc)

\* Pat.parse, lines 63-66
Pat_parse_table(s) ==
    IF ~s.complete THEN Outcome(s, <<>>, NoExc)
    ELSE Pat_parse_store(
            [s EXCEPT !.payload = <<PyFrom(s.table_body[1], 5)>>],
            get_program_map(PyFrom(s.table_body[1], 5)))

\* Pat.parse, lines 62-66, for p the outcome of Section.parse: reading
\* table_id_extension of an object that has none raises AttributeError
Pat_parse_after(p) ==
    IF p.exc # NoExc THEN p
    ELSE IF p.self.table_id_extension = <<>>
    THEN Outcome(p.self, <<>>, "AttributeError")
    ELSE Pat_parse_table(
            [p.self EXCEPT !.transport_stream_id = p.self.table_id_extension])

\* Pat.parse
Pat_parse(self, arg) == Pat_parse_after(parse(self, arg))

\* Pat.__init__, line 50, for p the outcome of Section.__init__
Pat_init_after(p) ==
    IF p.exc # NoExc THEN p
    ELSE IF p.self.table_id_extension = <<>>
    THEN Outcome(p.self, <<>>, "AttributeError")
    ELSE Outcome(
            [p.self EXCEPT !.transport_stream_id = p.self.table_id_extension],
            <<>>, NoExc)

\* Pat(data): Section.__init__ calls self.parse, which is Pat.parse
Pat_init(arg) ==
    Pat_init_after(
        IF arg # <<>> /\ arg[1] # <<>>
        THEN Pat_parse(Pat_fresh, arg)
        ELSE Outcome(Pat_fresh, <<>>, NoExc))

-----------------------------------------------------------------------------
(* The PAT decoder on its own (specification SpecPat): get_program_map is   *)
(* applied to a list of bytes, and a Pat is constructed.                     *)

ProgramNumbers == {0, 1, 258}

Pids == {16, 8191}

\* the three bits of entry[2] above the pid
TopBits == {0, 7}

\* the 4-byte entries of a PAT
PatEntries ==
    { << p \div 256, p % 256, top * 32 + pid \div 256, pid % 256 >> :
        p \in ProgramNumbers, pid \in Pids, top \in TopBits }

EntryLists == UNION { [1..n -> PatEntries] : n \in 0..MaxEntries }

RECURSIVE Flatten(_)
Flatten(es) == IF es = <<>> THEN <<>> ELSE Head(es) \o Flatten(Tail(es))

\* the checksum of the known PAT section, 0xaafe7cbf
PatCrc == <<170, 254, 124, 191>>

\* the first bytes of an entry that is cut short
PartialEntry == <<0, 9, 1>>

\* the lists given to get_program_map: whole entries, then up to 3 bytes of a
\* cut entry, then the checksum; and lists shorter than a checksum
PatPayloads ==
    { Flatten(es) \o PySlice(PartialEntry, 0, t) \o PatCrc :
        es \in EntryLists, t \in 0..3 }
    \cup { PySlice(PatCrc, 0, t) : t \in 0..3 }

\* the PAT section that carries a payload d, written with the mutators
PatSection(d) ==
    Wire([ table_id                 |-> 0,
           section_syntax_indicator |-> TRUE,
           private_indicator        |-> FALSE,
           section_length           |-> 5 + Len(d),
           table_id_extension       |-> 16,
           version                  |-> 16,
           current_next_indicator   |-> TRUE,
           section_number           |-> 0,
           last_section_number      |-> 0,
           payload                  |-> d ], 0)

InitPat ==
    /\ pat_data \in PatPayloads
    /\ table = NotCalled
    /\ pat = NoPat
    /\ other = Section_init
    /\ other_pos = 0
    /\ fed = NoFed
    /\ section = Section_init
    /\ stream = <<>>
    /\ written = NoWritten
    /\ pos = 0
    /\ ret = NoRet
    /\ errors = {}
    /\ split = "start"
    /\ data = <<>>
    /\ vals = NoVals
    /\ block = <<>>
    /\ once = TRUE

NotPat ==
    <<section, stream, written, pos, ret, errors, split, data, vals, block, once,
      TwoVars>>

\* table = get_program_map(pat_data)
GetProgramMap ==
    /\ table' = get_program_map(pat_data)
    /\ UNCHANGED <<pat_data, pat, NotPat>>

\* the caller's bookkeeping after Pat(...) whose outcome is r
Constructed(made, r) ==
    /\ pat' = [made |-> made, self |-> r.self, exc |-> r.exc]
    /\ UNCHANGED <<pat_data, table, NotPat>>

\* Pat() or Pat(None)
NewPatNone == Constructed("None", Pat_init(<<>>))

\* Pat(data) for data a whole PAT section
NewPatData == Constructed("data", Pat_init(<<PatSection(pat_data)>>))

NextPat ==
    \/ GetProgramMap
    \/ NewPatNone
    \/ NewPatData

SpecPat == InitPat /\ [][NextPat]_vars

-----------------------------------------------------------------------------
(* Properties of the PAT decoder (specification SpecPat). *)

\* the number of whole entries before the checksum
NumEntries ==
    IF Len(pat_data) >= 8 THEN (Len(pat_data) - 4) \div 4 ELSE 0

\* the program number and the pid of entry k (k = 0 is the first)
EntryProg(k) == pat_data[4 * k + 1] * 256 + pat_data[4 * k + 2]

EntryPid(k) == (pat_data[4 * k + 3] % 32) * 256 + pat_data[4 * k + 4]

\* C16 (PAT filtering): the map get_program_map returns never has the key 0.
C16_NoProgramZero ==
    table.exc = NoExc => 0 \notin DOMAIN table.val[1]

\* C16: the map of a payload with an entry for program 0 before its last
\* entry, with a non-zero pid
C16_Witness ==
    /\ table.exc = NoExc
    /\ DOMAIN table.val[1] # {}
    /\ \E k \in 0..(NumEntries - 2) : EntryProg(k) = 0 /\ EntryPid(k) # 0

\* C17 (entries read): get_program_map raises nothing, whatever the length of
\* the list, and the keys of the map are the non-zero program numbers of the
\* whole 4-byte entries before the checksum; a cut entry adds nothing.
C17_EntriesRead ==
    table # NotCalled =>
        /\ table.exc = NoExc
        /\ DOMAIN table.val[1]
             = { EntryProg(k) : k \in 0..(NumEntries - 1) } \ {0}

\* C17: the map of two entries followed by a cut entry
C17_Witness ==
    /\ table.exc = NoExc
    /\ NumEntries = 2
    /\ Len(pat_data) % 4 # 0
    /\ Cardinality(DOMAIN table.val[1]) = 2

\* the list with the top three bits of every entry's third byte cleared
WithoutTopBits(d) ==
    [i \in 1..Len(d) |->
        IF i % 4 = 3 /\ i <= 4 * NumEntries THEN d[i] % 32 ELSE d[i]]

\* C18 (entry mapping): every key of the map is the program number of an
\* entry and maps to that entry's pid ((byte2 & 0x1F) << 8) | byte3, a number
\* in 0..8191, of the last entry with that program number; clearing the top
\* three bits of every byte2 gives the same map.
C18_EntryMapping ==
    table.exc = NoExc =>
        /\ \A key \in DOMAIN table.val[1] :
              /\ table.val[1][key] \in 0..8191
              /\ \E k \in 0..(NumEntries - 1) :
                    /\ EntryProg(k) = key
                    /\ table.val[1][key] = EntryPid(k)
                    /\ \A j \in (k + 1)..(NumEntries - 1) : EntryProg(j) # key
        /\ get_program_map(WithoutTopBits(pat_data)).val = table.val

\* C18: two entries for one program with different pids, the first with top
\* bits set; the map holds the pid of the second
C18_Witness ==
    /\ table.exc = NoExc
    /\ NumEntries >= 2
    /\ EntryProg(0) # 0
    /\ EntryProg(0) = EntryProg(1)
    /\ EntryPid(0) # EntryPid(1)
    /\ pat_data[3] >= 32
    /\ table.val[1][EntryProg(0)] = EntryPid(1)

\* C19 (construction without data): Pat(None) raises nothing and gives an
\* object that is not complete and has no table; and so does Section(None).
C19_EmptyConstruction ==
    /\ pat.made = "None" =>
          /\ pat.exc = NoExc
          /\ ~pat.self.complete
          /\ pat.self.table = <<>>
    /\ Section_new(<<>>).exc = NoExc
    /\ ~Section_new(<<>>).self.complete

-----------------------------------------------------------------------------
(* The assembler on sections longer than the protocol allows (specification *)
(* SpecLong): section_length 4094 or 4095.                                   *)

LongLengths == {4094, 4095}

InitLong ==
    \E ssi \in BOOLEAN, sl \in LongLengths, reserved \in ReservedBits :
      \E ext \in IF ssi THEN ExtHeaders ELSE {NoExt} :
        /\ written = [ table_id                 |-> 66,
                       section_syntax_indicator |-> ssi,
                       private_indicator        |-> FALSE,
                       section_length           |-> sl,
                       table_id_extension       |-> ext.table_id_extension,
                       version                  |-> ext.version,
                       current_next_indicator   |-> ext.current_next_indicator,
                       section_number           |-> ext.section_number,
                       last_section_number      |-> ext.last_section_number,
                       payload  |-> Pattern(1, IF ssi THEN sl - 5 ELSE sl),
                       reserved |-> reserved ]
        /\ stream = Wire(written, reserved) \o Trailer(1)
        /\ section = Section_init
        /\ pos = 0
        /\ ret = NoRet
        /\ errors = {}
        /\ split = "start"
        /\ data = <<>>
        /\ vals = NoVals
        /\ block = <<>>
        /\ once = TRUE
        /\ pat_data = <<>>
        /\ table = NotCalled
        /\ pat = NoPat
        /\ other = Section_init
        /\ other_pos = 0
        /\ fed = NoFed

\* the chunk sizes the caller uses on a long section: small chunks and one
\* chunk of 2000 bytes while it is in the first 8 bytes, then a chunk that
\* ends one byte before the section's end, at its end or at the end of the
\* stream, and single bytes from there on
LongChunks ==
    { n \in (IF pos < 8 THEN {0, 1, 2, 3, 5, 2000} ELSE {})
              \cup { written.section_length + 2 - pos,
                     written.section_length + 3 - pos,
                     Len(stream) - pos }
              \cup (IF pos >= written.section_length + 2 THEN {0, 1} ELSE {}) :
        0 <= n /\ n <= Len(stream) - pos }

NextLong == \E n \in LongChunks : AddData(n)

SpecLong == InitLong /\ [][NextLong]_vars

\* C20 (length above the protocol maximum): a header with section_length
\* 4094 or 4095 is taken as it is: the call that decodes it and every later
\* call raise nothing, section_length holds the encoded value, and the
\* Section is complete exactly from the moment section_length+3 bytes have
\* been supplied.
C20_LongSectionAccepted ==
    /\ written.section_length \in LongLengths
    /\ section.header =>
          /\ ret.exc = NoExc
          /\ section.section_length = <<written.section_length>>
          /\ section.length = <<written.section_length + 3>>
    /\ pos >= 3 => section.header
    /\ section.complete <=> pos >= written.section_length + 3

\* C20: a section of 4095+3 bytes completed by its last byte
C20_Witness ==
    /\ written.section_length = 4095
    /\ section.complete
    /\ pos = 4098
    /\ ret = [val |-> <<1>>, exc |-> NoExc]
    /\ section.section_length = <<4095>>
    /\ Len(section.table_body[1]) = 4095

-----------------------------------------------------------------------------
(* The accessors read field by field (specification SpecBuilder). *)

\* the value of each header field, from the bits of that field alone
ByField(d) ==
    LET b == Bits(d)
    IN  [ table_id                 |-> b.table_id,
          section_syntax_indicator |-> <<b.section_syntax_indicator[1] = 1>>,
          private_indicator        |-> <<b.private_indicator[1] = 1>>,
          section_length           |->
              <<b.section_length[1] * 256 + b.section_length[2]>>,
          table_id_extension       |->
              <<b.table_id_extension[1] * 256 + b.table_id_extension[2]>>,
          version                  |-> b.version,
          current_next_indicator   |-> <<b.current_next_indicator[1] = 1>>,
          section_number           |-> b.section_number,
          last_section_number      |-> b.last_section_number ]

\* the bits of each header field: for each byte from byte 0, the weight of
\* the field's lowest bit in that byte and two to the number of its bits
\* (<<1, 1>> where the byte holds no bit of the field)
FieldBits ==
    [ table_id                 |-> << <<1, 256>> >>,
      section_syntax_indicator |-> << <<1, 1>>, <<128, 2>> >>,
      private_indicator        |-> << <<1, 1>>, <<64, 2>> >>,
      section_length           |-> << <<1, 1>>, <<1, 16>>, <<1, 256>> >>,
      table_id_extension       |->
          << <<1, 1>>, <<1, 1>>, <<1, 1>>, <<1, 256>>, <<1, 256>> >>,
      version                  |->
          << <<1, 1>>, <<1, 1>>, <<1, 1>>, <<1, 1>>, <<1, 1>>, <<2, 32>> >>,
      current_next_indicator   |->
          << <<1, 1>>, <<1, 1>>, <<1, 1>>, <<1, 1>>, <<1, 1>>, <<1, 2>> >>,
      section_number           |->
          << <<1, 1>>, <<1, 1>>, <<1, 1>>, <<1, 1>>, <<1, 1>>, <<1, 1>>,
             <<1, 256>> >>,
      last_section_number      |->
          << <<1, 1>>, <<1, 1>>, <<1, 1>>, <<1, 1>>, <<1, 1>>, <<1, 1>>,
             <<1, 1>>, <<1, 256>> >> ]

\* the bits of byte x that belong to the field part <<low, width>>
OwnBits(x, part) == ((x \div part[1]) % part[2]) * part[1]

\* the buffer that agrees with d on the bits of the field and differs from
\* it in every other bit
OtherBitsFlipped(d, bits) ==
    [ i \in 1..Len(d) |->
        IF i <= Len(bits)
        THEN OwnBits(d[i], bits[i]) + (255 - d[i]) - OwnBits(255 - d[i], bits[i])
        ELSE 255 - d[i] ]

\* the accessor of section_parser.py for field f
ParserAccessor(f, d) ==
    CASE f = "table_id"                 -> sparser_get_table_id(d)
      [] f = "section_syntax_indicator" -> sparser_get_section_syntax_indicator(d)
      [] f = "private_indicator"        -> sparser_get_private_indicator(d)
      [] f = "section_length"           -> sparser_get_section_length(d)
      [] f = "table_id_extension"       -> sparser_get_table_id_extension(d)
      [] f = "version"                  -> sparser_get_version_number(d)
      [] f = "current_next_indicator"   -> sparser_get_current_next_indicator(d)
      [] f = "section_number"           -> sparser_get_section_number(d)
      [] f = "last_section_number"      -> sparser_get_last_section_number(d)

\* the accessor of section.py for field f
SectionAccessor(f, d) ==
    CASE f = "table_id"                 -> get_table_id(d)
      [] f = "section_syntax_indicator" -> get_section_syntax_indicator(d)
      [] f = "private_indicator"        -> get_private_indicator(d)
      [] f = "section_length"           -> get_section_length(d)
      [] f = "table_id_extension"       -> get_table_id_extension(d)
      [] f = "version"                  -> get_version_number(d)
      [] f = "current_next_indicator"   -> get_current_next_indicator(d)
      [] f = "section_number"           -> get_section_number(d)
      [] f = "last_section_number"      -> get_last_section_number(d)

\* C21: each accessor of section_parser.py and of section.py returns the
\* value of the bits of its own field (table_id byte 0; the indicators bits 7
\* and 6 of byte 1; section_length the low nibble of byte 1 times 256 plus
\* byte 2; table_id_extension byte 3 times 256 plus byte 4; version bits 5..1
\* and current_next_indicator bit 0 of byte 5; the section numbers bytes 6
\* and 7), and returns the same on a buffer that agrees on those bits and
\* differs in every other bit.
C21_AccessorsByField ==
    LET expected == ByField(data)
    IN  \A f \in DOMAIN FieldBits :
          /\ ParserAccessor(f, data) = expected[f][1]
          /\ SectionAccessor(f, data) = expected[f][1]
          /\ ParserAccessor(f, OtherBitsFlipped(data, FieldBits[f]))
                = expected[f][1]
          /\ SectionAccessor(f, OtherBitsFlipped(data, FieldBits[f]))
                = expected[f][1]

\* C21: a block whose bytes 1 and 5 carry set bits of other fields next to a
\* section_length of 6 and a version of 10, both read back as written
C21_Witness ==
    /\ vals.section_length = <<6>>
    /\ vals.version = <<10>>
    /\ At(data, 1) \div 16 = 15
    /\ At(data, 5) \div 64 = 3
    /\ At(data, 5) % 2 = 1
    /\ sparser_get_section_length(data) = 6
    /\ get_version_number(data) = 10

-----------------------------------------------------------------------------
(* What add_data returns, by its docstring (specification Spec). *)

\* the bytes a Section still needs: section_length + 3 minus the bytes it has
\* accumulated, none once it is complete
StillRequired(s) ==
    IF s.complete THEN 0
    ELSE s.section_length[1] + 3 - Len(s.data_cache[1])

\* C22: a call on a Section that is not complete, if it returns, returns the
\* number of bytes still required to complete the section after the call
\* (section_length + 3 minus the bytes accumulated so far).
C22_ReturnsBytesRequired ==
    [][ (~section.complete /\ ret'.exc = NoExc /\ ret'.val # <<>>)
            => ret'.val[1] = StillRequired(section') ]_vars

-----------------------------------------------------------------------------
(* Two Section objects fed in any interleaving (specification SpecTwo). *)

\* the calls made on each of the two objects
MaxCalls == 3

\* the stream of the second object: a section without extended header, of
\* section_length 2, and one byte of what follows it
OtherStream == <<66, 0, 2, 201, 202, 203>>

\* the chunk sizes the caller uses besides all the bytes left: for the first
\* object none, one and the three header bytes, for the second object two
ChunkSizes == [a |-> {0, 1, 3}, b |-> {2}]

Chunks(o, left) == { n \in ChunkSizes[o] \cup {left} : n <= left }

InitTwo == InitParse

\* Faulty variant: data_cache is one list shared by every instance
other_instance_shares_cache(s, r) ==
    IF r.self.data_cache = <<>> \/ s.data_cache = <<>> THEN s
    ELSE [s EXCEPT !.data_cache = r.self.data_cache]

\* an instance on which the call with outcome r was not made: every
\* attribute the call assigns is an attribute of self, and the lists it keeps
\* are copies (list(data), the slices passed to extend)
other_instance(s, r) == s

\* section.add_data(stream[pos:pos+n]) on the first object
FeedFirst(n) ==
    LET r == add_data(section, PySlice(stream, pos, pos + n))
    IN  /\ Len(fed.a) < MaxCalls
        /\ section' = r.self
        /\ other' = other_instance(other, r)
        /\ pos' = pos + n
        /\ fed' = [fed EXCEPT !.a = Append(@, n)]
        /\ ret' = [val |-> r.val, exc |-> r.exc]
        /\ errors' = errors \cup ({r.exc} \ {NoExc})
        /\ UNCHANGED <<other_pos, split, stream, written, data, vals, block,
                       once, PatVars>>

\* other.add_data(OtherStream[other_pos:other_pos+n]) on the second object
FeedOther(n) ==
    LET r == add_data(other, PySlice(OtherStream, other_pos, other_pos + n))
    IN  /\ Len(fed.b) < MaxCalls
        /\ other' = r.self
        /\ section' = other_instance(section, r)
        /\ other_pos' = other_pos + n
        /\ fed' = [fed EXCEPT !.b = Append(@, n)]
        /\ ret' = [val |-> r.val, exc |-> r.exc]
        /\ errors' = errors \cup ({r.exc} \ {NoExc})
        /\ UNCHANGED <<pos, split, stream, written, data, vals, block, once,
                       PatVars>>

FeedFirstAny == \E n \in Chunks("a", Len(stream) - pos) : FeedFirst(n)

FeedOtherAny == \E n \in Chunks("b", Len(OtherStream) - other_pos) : FeedOther(n)

NextTwo ==
    \/ FeedFirstAny
    \/ FeedOtherAny

SpecTwo == InitTwo /\ [][NextTwo]_vars

\* the object that results when a fresh Section alone is passed the bytes of
\* str from p on in chunks of the given sizes
RECURSIVE Alone(_, _, _, _)
Alone(s, str, p, sizes) ==
    IF sizes = <<>> THEN s
    ELSE Alone(add_data(s, PySlice(str, p, p + Head(sizes))).self,
               str, p + Head(sizes), Tail(sizes))

-----------------------------------------------------------------------------
(* A caller that advances by the returned count (specification SpecLoop). *)

InitLoop ==
    /\ Init
    /\ written.table_id = 0
    /\ written.reserved = 0
    /\ ~written.private_indicator

\* the caller's bookkeeping after a call whose outcome is r: it advances its
\* position in the stream by the count returned
Offered(r) ==
    /\ section' = r.self
    /\ ret' = [val |-> r.val, exc |-> r.exc]
    /\ errors' = errors \cup ({r.exc} \ {NoExc})
    /\ pos' = IF r.exc = NoExc /\ r.val # <<>> THEN pos + r.val[1] ELSE pos
    /\ UNCHANGED <<split, stream, written, data, vals, block, once, PatVars,
                   TwoVars>>

\* one turn of the loop: while the Section is not complete, and no call has
\* raised, offer the next n >= 1 bytes of the stream from the position
Offer(n) ==
    /\ ~section.complete
    /\ ret.exc = NoExc
    /\ Offered(add_data(section, PySlice(stream, pos, pos + n)))

NextLoop == \E n \in 1..(Len(stream) - pos) : Offer(n)

SpecLoop == InitLoop /\ [][NextLoop]_vars

\* C24: a caller loop that offers the stream to a fresh Section in non-empty
\* chunks and advances by the returned count has, after every call,
\* delivered exactly the stream bytes before its position, all within the
\* section and in order, with no error; the loop does not run out of stream
\* or stop before the Section is complete, and the completed Section holds
\* the stream bytes [3, section_length+3) as table_body.
C24_CallerLoop ==
    /\ errors = {}
    /\ pos <= WireLen
    /\ ~section.complete => section.data_cache = << PySlice(stream, 0, pos) >>
    /\ pos >= WireLen => section.complete
    /\ section.complete =>
          /\ pos = WireLen
          /\ section.table_body = << PySlice(stream, 3, WireLen) >>

-----------------------------------------------------------------------------
(* The stages of the assembler (specifications Spec and SpecParse). *)

\* C25: the stages are passed in order and none is skipped: extended_header
\* implies header, complete implies header, and a complete Section whose
\* section_syntax_indicator is true has extended_header True, whatever the
\* section_length.
C25_StagesInOrder ==
    /\ section.extended_header => section.header
    /\ section.complete => section.header
    /\ (section.complete /\ section.section_syntax_indicator = <<TRUE>>)
          => section.extended_header

\* the bytes a Section has accumulated
Accumulated(s) ==
    IF s.complete THEN s.length[1]
    ELSE IF s.data_cache = << <<>> >> THEN 0
    ELSE Len(s.data_cache[1])

\* the extended-header fields of a Section
ExtendedFields(s) ==
    [ table_id_extension     |-> s.table_id_extension,
      version                |-> s.version,
      current_next_indicator |-> s.current_next_indicator,
      section_number         |-> s.section_number,
      last_section_number    |-> s.last_section_number ]

\* the extended-header fields the caller wrote into the section
WrittenExtendedFields ==
    [ f \in DOMAIN ExtendedFields(section) |-> <<written[f]>> ]

\* C26: fields are decoded as soon as their bytes are available: once the
\* Section has accumulated 3 bytes header is True, and once a Section with
\* section_syntax_indicator true has accumulated 8 bytes extended_header is
\* True and the extended-header fields hold the values on the wire, complete
\* or not.
C26_DecodedWhenAvailable ==
    /\ Accumulated(section) >= 3 => section.header
    /\ (section.header /\ section.section_syntax_indicator = <<TRUE>>
            /\ Accumulated(section) >= 8)
          => /\ section.extended_header
             /\ ExtendedFields(section) = WrittenExtendedFields

\* C27: across add_data and parse calls header, extended_header and complete
\* never change from True to False, and a Section that is not complete stays
\* incomplete in every call that feeds it no byte (add_data with an empty
\* chunk, parse without data).
C27_FlagsMonotonic ==
    [][ /\ section.header => section'.header
        /\ section.extended_header => section'.extended_header
        /\ section.complete => section'.complete
        /\ (~section.complete /\ (AddData(0) \/ Parse(<<>>)))
              => ~section'.complete ]_vars

\* C27: a Section complete with its extended header and checksum, whose
\* cache was filled again by a later parse of fewer bytes than the section
C27_Witness ==
    /\ section.complete
    /\ section.extended_header
    /\ section.crc # <<>>
    /\ HasThreeBytes(section)
    /\ Len(section.data_cache[1]) < section.length[1]
    /\ errors = {}

-----------------------------------------------------------------------------
(* A Pat fed in chunks (specification SpecFeedPat).  Pat inherits add_data   *)
(* from Section; the self.parse calls in it are calls of Pat.parse.          *)

\* Section.add_data on a Pat, lines 259-260
Pat_add_data_parse(s2) ==
    IF Len(s2.data_cache[1]) = s2.section_length[1] + 3
    THEN Pat_parse(s2, <<>>)
    ELSE Outcome(s2, <<>>, NoExc)

\* Section.add_data on a Pat, lines 257-262
Pat_add_data_extend(s1, rest, datalen, extra_len, missing_data_len) ==
    add_data_return(
        Pat_add_data_parse([s1 EXCEPT !.data_cache =
            <<s1.data_cache[1] \o PySlice(rest, 0, missing_data_len)>>]),
        Min(datalen, missing_data_len + extra_len))

\* Section.add_data on a Pat, lines 256-262
Pat_add_data_rest(s1, rest, datalen, extra_len) ==
    IF s1.section_length = <<>> \/ s1.data_cache = <<>>
    THEN Outcome(s1, <<>>, "AttributeError")
    ELSE Pat_add_data_extend(s1, rest, datalen, extra_len,
            (s1.section_length[1] + 3) - Len(s1.data_cache[1]))

\* Section.add_data on a Pat, lines 251-262, for hp the outcome of the parse
\* of line 253
Pat_add_data_header(hp, chunk, missing_header_len) ==
    IF hp.exc # NoExc THEN hp
    ELSE Pat_add_data_rest(hp.self, PyFrom(chunk, missing_header_len),
                           Len(chunk), missing_header_len)

\* Section.add_data on a Pat, lines 243-262
Pat_add_data_more(self, chunk) ==
    IF self.header THEN Pat_add_data_rest(self, chunk, Len(chunk), 0)
    ELSE Pat_add_data_header(
            Pat_parse([self EXCEPT !.data_cache =
                         <<self.data_cache[1]
                             \o PySlice(chunk, 0, 3 - Len(self.data_cache[1]))>>],
                      <<>>),
            chunk, 3 - Len(self.data_cache[1]))

\* Section.add_data on a Pat, lines 239-262
Pat_add_data_incomplete(self, chunk) ==
    IF self.data_cache = <<>> THEN Outcome(self, <<>>, "AttributeError")
    ELSE IF self.data_cache[1] = <<>>
    THEN add_data_first(Pat_parse(self, <<chunk>>))
    ELSE Pat_add_data_more(self, chunk)

\* Section.add_data on a Pat
Pat_add_data(self, chunk) ==
    IF self.complete THEN Outcome(self, <<>>, NoExc)
    ELSE Pat_add_data_incomplete(self, chunk)

\* the stream holds the PAT section that carries pat_data, and one more byte
InitFeedPat ==
    /\ pat_data \in PatPayloads
    /\ stream = PatSection(pat_data) \o Trailer(1)
    /\ table = NotCalled
    /\ pat = NoPat
    /\ other = Section_init
    /\ other_pos = 0
    /\ fed = NoFed
    /\ section = Section_init
    /\ written = NoWritten
    /\ pos = 0
    /\ ret = NoRet
    /\ errors = {}
    /\ split = "start"
    /\ data = <<>>
    /\ vals = NoVals
    /\ block = <<>>
    /\ once = TRUE

\* the chunk sizes the caller uses besides all the bytes left: none, one,
\* the header, the header with the extended header, and one PAT entry
PatChunkSizes == {0, 1, 3, 4, 8}

PatChunks(left) == { n \in PatChunkSizes \cup {left} : n <= left }

\* pat = Pat(stream[0:n]): the object is constructed on the first chunk
\* (Pat([]) is Pat(None))
NewPatChunk(n) ==
    /\ pat.made = "no"
    /\ pat' = [made |-> "chunk", exc |-> Pat_init(<<PySlice(stream, 0, n)>>).exc,
                 self |-> Pat_init(<<PySlice(stream, 0, n)>>).self]
    /\ pos' = n
    /\ UNCHANGED <<section, stream, written, ret, errors, split, data, vals,
                   block, once, pat_data, table, TwoVars>>

\* the caller's bookkeeping after pat.add_data with n bytes whose outcome is r
FedPat(r, n) ==
    /\ pat' = [pat EXCEPT !.self = r.self]
    /\ ret' = [val |-> r.val, exc |-> r.exc]
    /\ errors' = errors \cup ({r.exc} \ {NoExc})
    /\ pos' = pos + n
    /\ UNCHANGED <<section, stream, written, split, data, vals, block, once,
                   pat_data, table, TwoVars>>

\* pat.add_data(stream[pos:pos+n]) on the Pat that was constructed
FeedPat(n) ==
    /\ pat.made = "chunk"
    /\ pat.exc = NoExc
    /\ FedPat(Pat_add_data(pat.self, PySlice(stream, pos, pos + n)), n)

NewPatAny == \E n \in PatChunks(Len(stream)) : NewPatChunk(n)

FeedPatAny == \E n \in PatChunks(Len(stream) - pos) : FeedPat(n)

NextFeedPat ==
    \/ NewPatAny
    \/ FeedPatAny

SpecFeedPat == InitFeedPat /\ [][NextFeedPat]_vars

\* C28: a Pat fed in chunks raises no error, neither when it is constructed
\* nor in an add_data call; it has a table exactly when it is complete, and
\* then table is get_program_map of table_body[5:] and transport_stream_id
\* is table_id_extension.
C28_PatFedIncrementally ==
    /\ pat.exc = NoExc
    /\ errors = {}
    /\ pat.made = "chunk" =>
          /\ pat.self.complete <=> pat.self.table # <<>>
          /\ pat.self.complete =>
                /\ pat.self.table
                      = get_program_map(PyFrom(pat.self.table_body[1], 5)).val
                /\ pat.self.transport_stream_id = pat.self.table_id_extension

-----------------------------------------------------------------------------
(* The width-limited mutators on values of any size (specification          *)
(* SpecTrunc): the blocks of SpecBuilder, the values outside the fields.     *)

\* two to the number of bits of each width-limited field
Width ==
    [ section_length      |-> 4096,
      table_id_extension  |-> 65536,
      version             |-> 32,
      section_number      |-> 256,
      last_section_number |-> 256 ]

\* values for a field of width w: the first that does not fit, one more than
\* twice too large, and two negative ones
AnyValues(w) == {w, 2 * w + 10, -1, -w - 3}

\* the caller's bookkeeping after a mutator wrote v into field f
Wrote(f, v) ==
    /\ vals' = [vals EXCEPT ![f] = <<v>>]
    /\ once' = (once /\ vals[f] = <<>>)
    /\ UNCHANGED <<Assembler, block, PatVars, TwoVars>>

AnySectionLength ==
    \E v \in AnyValues(Width.section_length) :
        /\ data' = set_section_length(data, v)
        /\ Wrote("section_length", v)

AnyTableIdExtension ==
    \E v \in AnyValues(Width.table_id_extension) :
        /\ data' = set_table_id_extension(data, v)
        /\ Wrote("table_id_extension", v)

AnyVersionNumber ==
    \E v \in AnyValues(Width.version) :
        /\ data' = set_version_number(data, v)
        /\ Wrote("version", v)

AnySectionNumber ==
    \E v \in AnyValues(Width.section_number) :
        /\ data' = set_section_number(data, v)
        /\ Wrote("section_number", v)

AnyLastSectionNumber ==
    \E v \in AnyValues(Width.last_section_number) :
        /\ data' = set_last_section_number(data, v)
        /\ Wrote("last_section_number", v)

NextTrunc ==
    \/ AnySectionLength
    \/ AnyTableIdExtension
    \/ AnyVersionNumber
    \/ AnySectionNumber
    \/ AnyLastSectionNumber

SpecTrunc == InitBuilder /\ [][NextTrunc]_vars

\* C29: the width-limited mutators truncate: after a mutator wrote v the
\* accessor of its field returns v modulo the width of the field (4096 for
\* section_length, 32 for version, 65536 for table_id_extension, 256 for the
\* section numbers), and the call changes no bit outside the field, in
\* particular not bits 7..4 of byte 1 nor bits 7, 6 and 0 of byte 5.
C29_Truncation ==
    [][ LET before == Bits(data)
            after  == Bits(data')
        IN  /\ \A f \in DOMAIN Width :
                  /\ vals'[f] # <<>> =>
                        /\ ParserAccessor(f, data') = vals'[f][1] % Width[f]
                        /\ SectionAccessor(f, data') = vals'[f][1] % Width[f]
                  /\ vals'[f] = vals[f] => after[f] = before[f]
            /\ after.reserved = before.reserved
            /\ after.section_syntax_indicator = before.section_syntax_indicator
            /\ after.private_indicator = before.private_indicator
            /\ after.current_next_indicator = before.current_next_indicator
            /\ after.table_id = before.table_id
            /\ after.payload = before.payload
            /\ \A i \in 1..Len(data') : data'[i] \in 0..255 ]_vars

\* C29: every width-limited field was written with a value that does not fit
\* into a block of all ones, and reads back truncated with the other bits of
\* bytes 1 and 5 still set
C29_Witness ==
    /\ vals.section_length = <<2 * 4096 + 10>>
    /\ vals.version = <<-1>>
    /\ vals.table_id_extension = <<-65536 - 3>>
    /\ vals.section_number = <<256>>
    /\ vals.last_section_number = <<-256 - 3>>
    /\ sparser_get_section_length(data) = 10
    /\ sparser_get_version_number(data) = 31
    /\ sparser_get_table_id_extension(data) = 65533
    /\ sparser_get_section_number(data) = 0
    /\ sparser_get_last_section_number(data) = 253
    /\ At(data, 1) = 240
    /\ At(data, 5) = 255

=============================================================================
